---- MODULE Spec2Model ----
(***************************************************************************)
(* Model of two value types of ndn-js:                                     *)
(*   - js/security/key-params.js : KeyParams and its three variants        *)
(*     RsaKeyParams, EcdsaKeyParams, AesKeyParams (construction protocol); *)
(*   - ForwardingFlags (the second source file): the flag record, its      *)
(*     copy constructor, its setters and the NFD bit protocol.             *)
(*                                                                         *)
(* JavaScript values are tagged records, so that undefined, null, numbers  *)
(* and Name.Component values stay distinct and comparable:                 *)
(*   [t |-> "undefined"], [t |-> "null"], [t |-> "number", n |-> 7],       *)
(*   [t |-> "component", value |-> <<1, 0>>].                              *)
(***************************************************************************)
EXTENDS Integers, Sequences, FiniteSets, TLC

VARIABLES
  call,    \* key-params.js: the constructor call made last (variant and arguments)
  result,  \* key-params.js: what that call produced: an Error thrown, or the object
  heap,    \* ForwardingFlags: the objects held by the client's variables f and g
  last,    \* ForwardingFlags: the call made last, with its receiver, argument and return value
  prev     \* ForwardingFlags: the call made before it

vars == <<call, result, heap, last, prev>>

----------------------------------------------------------------------------
(* Bounds of the model *)

\* the longest key id (in bytes) a Name.Component argument carries
MaxKeyIdLen == 2
\* the largest byte value in a key id
MaxByte == 1
\* the small integers passed as a size (besides the three default sizes)
MaxSize == 3
\* origin values passed to setOrigin are 0..MaxOrigin (and null)
MaxOrigin == 1
\* integers passed to setNfdForwardingFlags are -MaxNfdValue..MaxNfdValue
MaxNfdValue == 5

----------------------------------------------------------------------------
(* JavaScript values *)

Undefined == [t |-> "undefined"]
Null == [t |-> "null"]
Number(n) == [t |-> "number", n |-> n]
Component(bytes) == [t |-> "component", value |-> bytes]

\* x == undefined and x != undefined (loose equality: only undefined and null are equal to undefined)
LooseEqUndefined(x) == x.t \in {"undefined", "null"}

\* x == n for a number n (loose equality against a number; the arguments here
\* are numbers, undefined or objects, and only a number can be equal)
LooseEqNumber(x, n) == x.t = "number" /\ x.n = n

\* x instanceof Name.Component
InstanceOfComponent(x) == x.t = "component"

----------------------------------------------------------------------------
(* The enumerations key-params.js requires from key-id-type.js and         *)
(* security-types.js                                                       *)

KeyIdType_USER_SPECIFIED == 0
KeyIdType_SHA256 == 1
KeyIdType_RANDOM == 2

KeyType_RSA == 0
KeyType_ECDSA == 1
KeyType_AES == 128

KeyIdTypes == {KeyIdType_USER_SPECIFIED, KeyIdType_SHA256, KeyIdType_RANDOM}

----------------------------------------------------------------------------
(* key-params.js *)

\* throw new Error(message): construction produces no value
Throw(message) == [threw |-> TRUE, error |-> message]
\* normal completion of a constructor: the constructed object
Return(this) == [threw |-> FALSE, this |-> this]

\* KeyParams with the test for an empty key id left out (C2 fails on it)
KeyParams_NoEmptyCheck(keyType, keyIdTypeOrKeyId) ==
  IF InstanceOfComponent(keyIdTypeOrKeyId)
    THEN Return([keyType_ |-> keyType,
                 keyIdType_ |-> Number(KeyIdType_USER_SPECIFIED),
                 keyId_ |-> keyIdTypeOrKeyId])
    ELSE IF LooseEqNumber(keyIdTypeOrKeyId, KeyIdType_USER_SPECIFIED)
      THEN Throw("KeyParams: KeyIdType is USER_SPECIFIED")
      ELSE Return([keyType_ |-> keyType,
                   keyIdType_ |-> keyIdTypeOrKeyId,
                   keyId_ |-> Component(<<>>)])

\* KeyParams with the test for USER_SPECIFIED left out (C3 fails on it)
KeyParams_NoUserSpecifiedCheck(keyType, keyIdTypeOrKeyId) ==
  IF InstanceOfComponent(keyIdTypeOrKeyId)
    THEN IF Len(keyIdTypeOrKeyId.value) = 0
      THEN Throw("KeyParams: keyId is empty")
      ELSE Return([keyType_ |-> keyType,
                   keyIdType_ |-> Number(KeyIdType_USER_SPECIFIED),
                   keyId_ |-> keyIdTypeOrKeyId])
    ELSE Return([keyType_ |-> keyType,
                 keyIdType_ |-> keyIdTypeOrKeyId,
                 keyId_ |-> Component(<<>>)])

\* KeyParams testing keyIdType != RANDOM instead of == USER_SPECIFIED (C6 fails on it)
KeyParams_RejectsSha256(keyType, keyIdTypeOrKeyId) ==
  IF InstanceOfComponent(keyIdTypeOrKeyId)
    THEN IF Len(keyIdTypeOrKeyId.value) = 0
      THEN Throw("KeyParams: keyId is empty")
      ELSE Return([keyType_ |-> keyType,
                   keyIdType_ |-> Number(KeyIdType_USER_SPECIFIED),
                   keyId_ |-> keyIdTypeOrKeyId])
    ELSE IF ~LooseEqNumber(keyIdTypeOrKeyId, KeyIdType_RANDOM)
      THEN Throw("KeyParams: KeyIdType is USER_SPECIFIED")
      ELSE Return([keyType_ |-> keyType,
                   keyIdType_ |-> keyIdTypeOrKeyId,
                   keyId_ |-> Component(<<>>)])

\* The base constructor KeyParams(keyType, keyIdTypeOrKeyId).
KeyParams(keyType, keyIdTypeOrKeyId) ==
  IF InstanceOfComponent(keyIdTypeOrKeyId)
    THEN \* keyId.getValue().size() == 0
         IF Len(keyIdTypeOrKeyId.value) = 0
      THEN Throw("KeyParams: keyId is empty")
      ELSE Return([keyType_ |-> keyType,
                   keyIdType_ |-> Number(KeyIdType_USER_SPECIFIED),
                   keyId_ |-> keyIdTypeOrKeyId])
    ELSE IF LooseEqNumber(keyIdTypeOrKeyId, KeyIdType_USER_SPECIFIED)
      THEN Throw("KeyParams: KeyIdType is USER_SPECIFIED")
      ELSE Return([keyType_ |-> keyType,
                   keyIdType_ |-> keyIdTypeOrKeyId,
                   keyId_ |-> Component(<<>>)])

\* this.size_ = size, after the base constructor has run; an Error thrown by
\* the base constructor propagates and the assignment never happens
WithSize(base, size) ==
  IF base.threw THEN base
  ELSE Return([keyType_ |-> base.this.keyType_,
               keyIdType_ |-> base.this.keyIdType_,
               keyId_ |-> base.this.keyId_,
               size_ |-> size])

RsaKeyParams_getDefaultSize == 2048
RsaKeyParams_getType == KeyType_RSA

\* RsaKeyParams testing !arg2 instead of arg2 == undefined, so that a size of 0
\* is replaced by the default (C5 fails on it)
RsaKeyParams_FalsySizeDefaults(keyIdOrSize, arg2) ==
  IF InstanceOfComponent(keyIdOrSize)
    THEN WithSize(KeyParams(RsaKeyParams_getType, keyIdOrSize),
                  IF LooseEqUndefined(arg2) \/ LooseEqNumber(arg2, 0)
                    THEN Number(RsaKeyParams_getDefaultSize) ELSE arg2)
    ELSE IF ~LooseEqUndefined(keyIdOrSize)
      THEN WithSize(KeyParams(RsaKeyParams_getType,
                              IF ~LooseEqUndefined(arg2) THEN arg2
                              ELSE Number(KeyIdType_RANDOM)),
                    keyIdOrSize)
      ELSE WithSize(KeyParams(RsaKeyParams_getType, Number(KeyIdType_RANDOM)),
                    Number(RsaKeyParams_getDefaultSize))

\* new RsaKeyParams(keyIdOrSize, arg2)
RsaKeyParams(keyIdOrSize, arg2) ==
  IF InstanceOfComponent(keyIdOrSize)
    THEN WithSize(KeyParams(RsaKeyParams_getType, keyIdOrSize),
                  IF LooseEqUndefined(arg2)
                    THEN Number(RsaKeyParams_getDefaultSize) ELSE arg2)
    ELSE IF ~LooseEqUndefined(keyIdOrSize)
      THEN WithSize(KeyParams(RsaKeyParams_getType,
                              IF ~LooseEqUndefined(arg2) THEN arg2
                              ELSE Number(KeyIdType_RANDOM)),
                    keyIdOrSize)
      ELSE WithSize(KeyParams(RsaKeyParams_getType, Number(KeyIdType_RANDOM)),
                    Number(RsaKeyParams_getDefaultSize))

EcdsaKeyParams_getDefaultSize == 256
EcdsaKeyParams_getType == KeyType_ECDSA

\* new EcdsaKeyParams(keyIdOrSize, arg2)
EcdsaKeyParams(keyIdOrSize, arg2) ==
  IF InstanceOfComponent(keyIdOrSize)
    THEN WithSize(KeyParams(EcdsaKeyParams_getType, keyIdOrSize),
                  IF LooseEqUndefined(arg2)
                    THEN Number(EcdsaKeyParams_getDefaultSize) ELSE arg2)
    ELSE IF ~LooseEqUndefined(keyIdOrSize)
      THEN WithSize(KeyParams(EcdsaKeyParams_getType,
                              IF ~LooseEqUndefined(arg2) THEN arg2
                              ELSE Number(KeyIdType_RANDOM)),
                    keyIdOrSize)
      ELSE WithSize(KeyParams(EcdsaKeyParams_getType, Number(KeyIdType_RANDOM)),
                    Number(EcdsaKeyParams_getDefaultSize))

AesKeyParams_getDefaultSize == 64
AesKeyParams_getType == KeyType_AES

\* new AesKeyParams(keyIdOrSize, arg2)
AesKeyParams(keyIdOrSize, arg2) ==
  IF InstanceOfComponent(keyIdOrSize)
    THEN WithSize(KeyParams(AesKeyParams_getType, keyIdOrSize),
                  IF LooseEqUndefined(arg2)
                    THEN Number(AesKeyParams_getDefaultSize) ELSE arg2)
    ELSE IF ~LooseEqUndefined(keyIdOrSize)
      THEN WithSize(KeyParams(AesKeyParams_getType,
                              IF ~LooseEqUndefined(arg2) THEN arg2
                              ELSE Number(KeyIdType_RANDOM)),
                    keyIdOrSize)
      ELSE WithSize(KeyParams(AesKeyParams_getType, Number(KeyIdType_RANDOM)),
                    Number(AesKeyParams_getDefaultSize))

\* The accessors.
getKeyType(this) == this.keyType_
getKeyIdType(this) == this.keyIdType_
getKeyId(this) == this.keyId_
getKeySize(this) == this.size_

----------------------------------------------------------------------------
(* The arguments the constructors are called with *)

Bytes == 0..MaxByte
KeyIds == UNION {[1..n -> Bytes] : n \in 0..MaxKeyIdLen}
ComponentArgs == {Component(b) : b \in KeyIds}
DefaultSizes ==
  {RsaKeyParams_getDefaultSize, EcdsaKeyParams_getDefaultSize, AesKeyParams_getDefaultSize}
SizeArgs == {Number(n) : n \in (0..MaxSize) \cup DefaultSizes}
KeyIdTypeArgs == {Number(n) : n \in KeyIdTypes}

\* first argument: a key id, a size, or omitted
FirstArgs == ComponentArgs \cup SizeArgs \cup {Undefined}
\* second argument: a size (key-id shape), a KeyIdType (size/policy shape), or omitted
SecondArgs == SizeArgs \cup KeyIdTypeArgs \cup {Undefined}

NoCall == [variant |-> "none"]
NoResult == [threw |-> FALSE]

NewRsaKeyParams ==
  \E keyIdOrSize \in FirstArgs, arg2 \in SecondArgs :
    /\ call' = [variant |-> "RsaKeyParams", keyIdOrSize |-> keyIdOrSize, arg2 |-> arg2]
    /\ result' = RsaKeyParams(keyIdOrSize, arg2)
    /\ UNCHANGED <<heap, last, prev>>

NewEcdsaKeyParams ==
  \E keyIdOrSize \in FirstArgs, arg2 \in SecondArgs :
    /\ call' = [variant |-> "EcdsaKeyParams", keyIdOrSize |-> keyIdOrSize, arg2 |-> arg2]
    /\ result' = EcdsaKeyParams(keyIdOrSize, arg2)
    /\ UNCHANGED <<heap, last, prev>>

NewAesKeyParams ==
  \E keyIdOrSize \in FirstArgs, arg2 \in SecondArgs :
    /\ call' = [variant |-> "AesKeyParams", keyIdOrSize |-> keyIdOrSize, arg2 |-> arg2]
    /\ result' = AesKeyParams(keyIdOrSize, arg2)
    /\ UNCHANGED <<heap, last, prev>>

----------------------------------------------------------------------------
(* ForwardingFlags *)

NfdForwardingFlags_CHILD_INHERIT == 1
NfdForwardingFlags_CAPTURE == 2

\* JavaScript's a & b and a | b on integers in two's complement
RECURSIVE BitAnd(_, _)
BitAnd(a, b) ==
  IF a = 0 \/ b = 0 THEN 0
  ELSE IF a = -1 THEN b
  ELSE IF b = -1 THEN a
  ELSE ((a % 2) * (b % 2)) + 2 * BitAnd(a \div 2, b \div 2)

RECURSIVE BitOr(_, _)
BitOr(a, b) ==
  IF a = 0 THEN b
  ELSE IF b = 0 THEN a
  ELSE IF a = -1 \/ b = -1 THEN -1
  ELSE (IF a % 2 = 1 \/ b % 2 = 1 THEN 1 ELSE 0) + 2 * BitOr(a \div 2, b \div 2)

Bool(b) == [t |-> "boolean", b |-> b]
\* a reference to the object one of the client's variables holds
Ref(x) == [t |-> "object", ref |-> x]

\* typeof value === 'object' && value instanceof ForwardingFlags
InstanceOfForwardingFlags(value) == "childInherit" \in DOMAIN value

\* ForwardingFlags whose copy branch does not copy origin (C9 fails on it)
ForwardingFlags_CopyDropsOrigin(value) ==
  IF InstanceOfForwardingFlags(value)
    THEN [childInherit |-> value.childInherit,
          capture |-> value.capture,
          origin |-> Null]
    ELSE [childInherit |-> TRUE, capture |-> FALSE, origin |-> Null]

\* new ForwardingFlags(value): the fields of the object constructed
ForwardingFlags(value) ==
  IF InstanceOfForwardingFlags(value)
    THEN [childInherit |-> value.childInherit,
          capture |-> value.capture,
          origin |-> value.origin]
    ELSE [childInherit |-> TRUE, capture |-> FALSE, origin |-> Null]

\* getNfdForwardingFlags assigning with = instead of |= (C10 fails on it)
getNfdForwardingFlags_Overwrites(this) ==
  LET result0 == 0
      result1 == IF this.childInherit
                   THEN NfdForwardingFlags_CHILD_INHERIT ELSE result0
      result2 == IF this.capture
                   THEN NfdForwardingFlags_CAPTURE ELSE result1
  IN result2

\* this.getNfdForwardingFlags(): the integer returned
getNfdForwardingFlags(this) ==
  LET result0 == 0
      result1 == IF this.childInherit
                   THEN BitOr(result0, NfdForwardingFlags_CHILD_INHERIT) ELSE result0
      result2 == IF this.capture
                   THEN BitOr(result1, NfdForwardingFlags_CAPTURE) ELSE result1
  IN result2

\* setNfdForwardingFlags testing the CHILD_INHERIT bit for both flags (C7 fails on it)
setNfdForwardingFlags_SameMask(this, nfdForwardingFlags) ==
  [this EXCEPT
     !.childInherit = (BitAnd(nfdForwardingFlags, NfdForwardingFlags_CHILD_INHERIT) # 0),
     !.capture = (BitAnd(nfdForwardingFlags, NfdForwardingFlags_CHILD_INHERIT) # 0)]

\* setNfdForwardingFlags that also resets origin (C8 fails on it)
setNfdForwardingFlags_ClearsOrigin(this, nfdForwardingFlags) ==
  [childInherit |-> (BitAnd(nfdForwardingFlags, NfdForwardingFlags_CHILD_INHERIT) # 0),
   capture |-> (BitAnd(nfdForwardingFlags, NfdForwardingFlags_CAPTURE) # 0),
   origin |-> Null]

\* this.setNfdForwardingFlags(nfdForwardingFlags): the object afterwards
setNfdForwardingFlags(this, nfdForwardingFlags) ==
  [this EXCEPT
     !.childInherit = (BitAnd(nfdForwardingFlags, NfdForwardingFlags_CHILD_INHERIT) # 0),
     !.capture = (BitAnd(nfdForwardingFlags, NfdForwardingFlags_CAPTURE) # 0)]

getChildInherit(this) == this.childInherit
getCapture(this) == this.capture
getOrigin(this) == this.origin
setChildInherit(this, childInherit) == [this EXCEPT !.childInherit = childInherit]
setCapture(this, capture) == [this EXCEPT !.capture = capture]
setOrigin(this, origin) == [this EXCEPT !.origin = origin]

\* the client's two variables, each holding a ForwardingFlags object
Objects == {"f", "g"}
NfdValues == (-MaxNfdValue)..MaxNfdValue
OriginArgs == {Null} \cup {Number(n) : n \in 0..MaxOrigin}

NoFlagsCall == [op |-> "none"]

\* a call on x: what the model records of it, and of the call before it
Called(op, x, arg, ret) ==
  /\ last' = [op |-> op, self |-> x, arg |-> arg, ret |-> ret]
  /\ prev' = IF last.op = "none" THEN NoFlagsCall
             ELSE [op |-> last.op, self |-> last.self, arg |-> last.arg]
  /\ UNCHANGED <<call, result>>

\* x = new ForwardingFlags()
New(x) ==
  /\ heap' = [heap EXCEPT ![x] = ForwardingFlags(Undefined)]
  /\ Called("new ForwardingFlags", x, Undefined, Ref(x))

\* x = new ForwardingFlags(y)
Copy(x, y) ==
  /\ heap' = [heap EXCEPT ![x] = ForwardingFlags(heap[y])]
  /\ Called("new ForwardingFlags", x, Ref(y), Ref(x))

SetNfdForwardingFlags(x, v) ==
  /\ heap' = [heap EXCEPT ![x] = setNfdForwardingFlags(heap[x], v)]
  /\ Called("setNfdForwardingFlags", x, Number(v), Ref(x))

SetChildInherit(x, b) ==
  /\ heap' = [heap EXCEPT ![x] = setChildInherit(heap[x], b)]
  /\ Called("setChildInherit", x, Bool(b), Ref(x))

SetCapture(x, b) ==
  /\ heap' = [heap EXCEPT ![x] = setCapture(heap[x], b)]
  /\ Called("setCapture", x, Bool(b), Ref(x))

SetOrigin(x, o) ==
  /\ heap' = [heap EXCEPT ![x] = setOrigin(heap[x], o)]
  /\ Called("setOrigin", x, o, Ref(x))

GetNfdForwardingFlags(x) ==
  /\ UNCHANGED heap
  /\ Called("getNfdForwardingFlags", x, Undefined, Number(getNfdForwardingFlags(heap[x])))

GetChildInherit(x) ==
  /\ UNCHANGED heap
  /\ Called("getChildInherit", x, Undefined, Bool(getChildInherit(heap[x])))

GetCapture(x) ==
  /\ UNCHANGED heap
  /\ Called("getCapture", x, Undefined, Bool(getCapture(heap[x])))

GetOrigin(x) ==
  /\ UNCHANGED heap
  /\ Called("getOrigin", x, Undefined, getOrigin(heap[x]))

----------------------------------------------------------------------------
(* Specifications *)

InitKeyParams == call = NoCall /\ result = NoResult
\* the client starts with two default-constructed objects and no call made
InitForwardingFlags ==
  /\ heap = [x \in Objects |-> ForwardingFlags(Undefined)]
  /\ last = NoFlagsCall
  /\ prev = NoFlagsCall

Init == InitKeyParams /\ InitForwardingFlags

NextKeyParams == NewRsaKeyParams \/ NewEcdsaKeyParams \/ NewAesKeyParams

SpecKeyParams == Init /\ [][NextKeyParams]_vars

NextForwardingFlags ==
  \E x \in Objects :
    \/ New(x)
    \/ \E y \in Objects : Copy(x, y)
    \/ \E v \in NfdValues : SetNfdForwardingFlags(x, v)
    \/ \E b \in BOOLEAN : SetChildInherit(x, b)
    \/ \E b \in BOOLEAN : SetCapture(x, b)
    \/ \E o \in OriginArgs : SetOrigin(x, o)
    \/ GetNfdForwardingFlags(x)
    \/ GetChildInherit(x)
    \/ GetCapture(x)
    \/ GetOrigin(x)

SpecForwardingFlags == Init /\ [][NextForwardingFlags]_vars

----------------------------------------------------------------------------
(* Properties of key-params.js *)

IsCall == call.variant # "none"
\* the call has the key-id shape Variant(keyId, size?)
KeyIdShape == IsCall /\ InstanceOfComponent(call.keyIdOrSize)
\* the call has the size/policy shape Variant(size?, keyIdType?)
SizeShape == IsCall /\ ~InstanceOfComponent(call.keyIdOrSize)
SizeOmitted == call.keyIdOrSize = Undefined
Arg2Omitted == call.arg2 = Undefined
EmptyKeyIdGiven == KeyIdShape /\ call.keyIdOrSize.value = <<>>
UserSpecifiedGiven == SizeShape /\ call.arg2 = Number(KeyIdType_USER_SPECIFIED)
Succeeded == IsCall /\ ~result.threw
Failed == IsCall /\ result.threw /\ "this" \notin DOMAIN result

\* the documented default size and type tag of each variant
DocumentedDefaultSize ==
  CASE call.variant = "RsaKeyParams" -> Number(2048)
    [] call.variant = "EcdsaKeyParams" -> Number(256)
    [] call.variant = "AesKeyParams" -> Number(64)
DocumentedKeyType ==
  CASE call.variant = "RsaKeyParams" -> KeyType_RSA
    [] call.variant = "EcdsaKeyParams" -> KeyType_ECDSA
    [] call.variant = "AesKeyParams" -> KeyType_AES

\* C1 (as stated): in the size/policy shape, an explicitly supplied keyIdType
\* of USER_SPECIFIED makes construction fail, whatever the size argument is
\* (supplied or omitted). The code ignores arg2 when the size is omitted.
C1_UserSpecifiedAlwaysRejected == UserSpecifiedGiven => Failed

\* C2: for every variant, an explicit empty key id makes construction fail
\* with an Error and produce no value, whether or not a size is supplied.
C2_EmptyKeyIdRejected ==
  EmptyKeyIdGiven => Failed /\ result.error = "KeyParams: keyId is empty"

C2_Witness ==
  /\ EmptyKeyIdGiven /\ call.variant = "AesKeyParams" /\ call.arg2 = Number(2048)
  /\ Failed

\* C3 (invariant I1): for every value a variant's constructor produces,
\* getKeyIdType() is USER_SPECIFIED iff getKeyId() is non-empty, and then it is
\* the key id supplied at construction; otherwise getKeyId() is the empty
\* placeholder.
C3_KeyIdTypeIffKeyId ==
  Succeeded =>
    LET this == result.this
        nonEmpty == Len(getKeyId(this).value) > 0
    IN /\ (getKeyIdType(this) = Number(KeyIdType_USER_SPECIFIED)) <=> nonEmpty
       /\ nonEmpty => KeyIdShape /\ getKeyId(this) = call.keyIdOrSize
       /\ ~nonEmpty => getKeyId(this) = Component(<<>>)

C3_Witness ==
  /\ Succeeded /\ KeyIdShape
  /\ getKeyIdType(result.this) = Number(KeyIdType_USER_SPECIFIED)
  /\ getKeyId(result.this) = Component(<<1, 0>>)

\* C4 (as stated): in the size/policy shape the two optional arguments default
\* independently: getKeySize() is the supplied size or the variant default,
\* and getKeyIdType() is the supplied keyIdType (not USER_SPECIFIED) or RANDOM,
\* also when the size is omitted. The code drops a keyIdType given without a size.
C4_ArgumentsDefaultIndependently ==
  (SizeShape /\ ~UserSpecifiedGiven) =>
    /\ Succeeded
    /\ getKeySize(result.this) =
         (IF SizeOmitted THEN DocumentedDefaultSize ELSE call.keyIdOrSize)
    /\ getKeyIdType(result.this) =
         (IF Arg2Omitted THEN Number(KeyIdType_RANDOM) ELSE call.arg2)

\* C5: for every variant, an explicit non-empty key id yields keyIdType
\* USER_SPECIFIED, that key id, the variant's type tag, and the size given as
\* second argument or the variant default (2048 / 256 / 64) when it is omitted.
C5_KeyIdShapeResult ==
  (KeyIdShape /\ ~EmptyKeyIdGiven) =>
    /\ Succeeded
    /\ getKeyIdType(result.this) = Number(KeyIdType_USER_SPECIFIED)
    /\ getKeyId(result.this) = call.keyIdOrSize
    /\ getKeyType(result.this) = DocumentedKeyType
    /\ getKeySize(result.this) =
         (IF Arg2Omitted THEN DocumentedDefaultSize ELSE call.arg2)

C5_Witness ==
  /\ KeyIdShape /\ call.variant = "EcdsaKeyParams"
  /\ call.keyIdOrSize = Component(<<1>>) /\ Arg2Omitted
  /\ Succeeded /\ getKeySize(result.this) = Number(256)

\* C6: the empty key id and the explicit USER_SPECIFIED keyIdType of the
\* size/policy shape are the only failure modes: every other argument
\* combination succeeds and produces a value with all four attributes.
C6_OnlyTwoFailureModes ==
  (IsCall /\ ~EmptyKeyIdGiven /\ ~UserSpecifiedGiven) =>
    /\ Succeeded
    /\ DOMAIN result.this = {"keyType_", "keyIdType_", "keyId_", "size_"}

C6_Witness ==
  /\ SizeShape /\ call.keyIdOrSize = Number(0)
  /\ call.arg2 = Number(KeyIdType_SHA256)
  /\ Succeeded /\ getKeyIdType(result.this) = Number(KeyIdType_SHA256)

----------------------------------------------------------------------------
(* Properties of ForwardingFlags.  In a step of SpecForwardingFlags, last'  *)
(* is the call the step makes and last the call made before it.             *)

Setters == {"setNfdForwardingFlags", "setChildInherit", "setCapture", "setOrigin"}
Getters == {"getNfdForwardingFlags", "getChildInherit", "getCapture", "getOrigin"}
IsCopy(c) == c.op = "new ForwardingFlags" /\ c.arg # Undefined
IsDefaultNew(c) == c.op = "new ForwardingFlags" /\ c.arg = Undefined

\* v restricted to bits 0 and 1
LowTwoBits(v) == (v % 2) + 2 * ((v \div 2) % 2)

\* C7: setNfdForwardingFlags(v) followed by getNfdForwardingFlags() on the same
\* object, whatever its state before, returns v when v is in 0..3 and v
\* restricted to bits 0 and 1 otherwise.
C7_NfdRoundTrip ==
  [][(/\ last.op = "setNfdForwardingFlags"
      /\ last'.op = "getNfdForwardingFlags"
      /\ last'.self = last.self)
     => /\ last'.ret = Number(LowTwoBits(last.arg.n))
        /\ last.arg.n \in 0..3 => last'.ret = last.arg]_vars

C7_Witness ==
  /\ prev.op = "setNfdForwardingFlags" /\ prev.arg = Number(-3)
  /\ last.op = "getNfdForwardingFlags" /\ last.self = prev.self
  /\ last.ret = Number(1)
  /\ heap[last.self].origin = Number(1)

\* C8: origin is absent after default construction, is the source's origin
\* after copy construction, becomes the argument of setOrigin, and is left
\* unchanged by setNfdForwardingFlags, setChildInherit, setCapture and the
\* getters; setOrigin leaves childInherit and capture unchanged.
C8_OriginOnlyChangedBySetOrigin ==
  [][/\ IsDefaultNew(last') => heap'[last'.self].origin = Null
     /\ IsCopy(last') => heap'[last'.self].origin = heap[last'.arg.ref].origin
     /\ last'.op = "setOrigin" =>
          /\ heap'[last'.self].origin = last'.arg
          /\ heap'[last'.self].childInherit = heap[last'.self].childInherit
          /\ heap'[last'.self].capture = heap[last'.self].capture
     /\ last'.op \in (Setters \cup Getters) \ {"setOrigin"} =>
          \A x \in Objects : heap'[x].origin = heap[x].origin]_vars

C8_Witness ==
  /\ prev.op = "setOrigin" /\ prev.arg = Number(0)
  /\ last.op = "setNfdForwardingFlags" /\ last.self = prev.self
  /\ last.arg = Number(2)
  /\ heap[last.self] = [childInherit |-> FALSE, capture |-> TRUE, origin |-> Number(0)]

\* C9: new ForwardingFlags(f) has the childInherit, capture and origin of f
\* and leaves f as it was; a setter call on one object leaves every other
\* object's three fields unchanged.
C9_CopyIsIndependent ==
  [][/\ IsCopy(last') =>
          LET src == last'.arg.ref
              dst == last'.self
          IN /\ heap'[dst].childInherit = heap[src].childInherit
             /\ heap'[dst].capture = heap[src].capture
             /\ heap'[dst].origin = heap[src].origin
             /\ heap'[src] = heap[src]
     /\ last'.op \in Setters =>
          \A x \in Objects \ {last'.self} : heap'[x] = heap[x]]_vars

C9_Witness ==
  /\ IsCopy(prev) /\ prev.self = "g" /\ prev.arg = Ref("f")
  /\ last.op = "setOrigin" /\ last.self = "g" /\ last.arg = Null
  /\ heap["f"] = [childInherit |-> FALSE, capture |-> TRUE, origin |-> Number(0)]
  /\ heap["g"] = [childInherit |-> FALSE, capture |-> TRUE, origin |-> Null]

\* C10: getNfdForwardingFlags() returns (childInherit ? 1 : 0) | (capture ? 2 : 0):
\* 1 for {true,false} (the default-constructed state), 2 for {false,true},
\* 3 for {true,true}, 0 for {false,false}; the result is in 0..3 whatever
\* origin is, and the call leaves the three fields unchanged.
C10_GetNfdForwardingFlags ==
  [][last'.op = "getNfdForwardingFlags" =>
       LET this == heap[last'.self]
           ret == last'.ret
       IN /\ ret = Number((IF this.childInherit THEN 1 ELSE 0)
                          + (IF this.capture THEN 2 ELSE 0))
          /\ (this.childInherit /\ ~this.capture) => ret = Number(1)
          /\ (~this.childInherit /\ this.capture) => ret = Number(2)
          /\ (this.childInherit /\ this.capture) => ret = Number(3)
          /\ (~this.childInherit /\ ~this.capture) => ret = Number(0)
          /\ (IsDefaultNew(last) /\ last.self = last'.self) => ret = Number(1)
          /\ ret.n \in 0..3
          /\ heap' = heap]_vars

C10_Witness ==
  /\ last.op = "getNfdForwardingFlags" /\ last.ret = Number(3)
  /\ heap[last.self] = [childInherit |-> TRUE, capture |-> TRUE, origin |-> Number(1)]
  /\ prev.op = "setCapture" /\ prev.self = last.self

====
